---------------------------- MODULE Spec2Model ----------------------------
(***************************************************************************)
(* maybeasy: the Maybe type of src/unnamed/part_005 (a single class whose  *)
(* field `state` is the contained value or null) and the free functions of *)
(* src/src/functions.ts (lines 1-518) that are written against it.         *)
(*                                                                         *)
(* Instances live in `heap`: heap[i] is the `state` field of instance i,   *)
(* and a Maybe is referred to by Ref(i). Every operation is an operator    *)
(* from a world [heap, calls, ret] to the world after it: it may allocate  *)
(* instances, it logs every invocation of a caller-supplied function in    *)
(* `calls`, and it leaves its return value in `ret`.                       *)
(***************************************************************************)
EXTENDS Integers, Sequences, FiniteSets, TLC

VARIABLES heap, calls, last

vars == <<heap, calls, last>>

(***************************************************************************)
(* Records. TLC keeps the fields of a record in the order in which their   *)
(* names first appear in the module; every record is built by one of the   *)
(* constructors of this section, which lists its fields in that order.     *)
(***************************************************************************)
\* the operation just performed: its receiver, arguments and return value,
\* and the size of the heap before it
Operation(op, recv, args, ret, base) ==
  [op |-> op, recv |-> recv, args |-> args, ret |-> ret, base |-> base]
\* a law just evaluated: its inputs and what its two sides returned
Evaluation(op, args, lhs, rhs) == [op |-> op, args |-> args, lhs |-> lhs, rhs |-> rhs]
\* one invocation of a caller-supplied function
Invocation(fn, args, ret) == [args |-> args, ret |-> ret, fn |-> fn]
\* a world: the instances, the invocations so far, the value just returned
WorldOf(h, c, ret) == [heap |-> h, calls |-> c, ret |-> ret]

(***************************************************************************)
(* JavaScript values, tagged by their typeof.                              *)
(***************************************************************************)
Null == [typeof |-> "null"]
Undefined == [typeof |-> "undefined"]
Num(x) == [typeof |-> "number", num |-> x]
Str(x) == [typeof |-> "string", str |-> x]
Bool(x) == [typeof |-> "boolean", bool |-> x]
\* a reference to the instance heap[i]
Ref(i) == [typeof |-> "Maybe", id |-> i]
\* an array of the elements x, and a plain object with the properties x
Arr(x) == [typeof |-> "object", items |-> x]
Obj(x) == [typeof |-> "object", fields |-> x]

\* The largest heap an operation of Spec may leave behind.
MaxHeap == 3
\* The longest list handed to sequence and traverse.
MaxList == 3

\* The values the callers hand to the constructors and as defaults: the two
\* absence sentinels, the falsy primitives 0, '' and false, and the truthy 1.
Vals == {Null, Undefined, Num(0), Num(1), Str(""), Bool(FALSE)}

(***************************************************************************)
(* Caller-supplied functions, by description.                              *)
(*   Fn(name)       a function of one value returning a value              *)
(*   Compose(f, g)  x => f(g(x))                                           *)
(*   Const(d)       () => d                                                *)
(*   JustFn         the library's own `just`, passed as a function         *)
(*   ConstNothing   () => nothing()                                        *)
(*   JustOf(f)      x => just(f(x))                                        *)
(*   Chain(f, g)    x => f(x).andThen(g)                                   *)
(*   Guard(f)       x => (f(x) ? just(x) : nothing())                      *)
(*   Assigner(o, k) b => ({ ...o, [k]: b })                                *)
(*   Doit(name, f)  what the free function `name` returns when it is given *)
(*                  f alone: a function awaiting the last argument         *)
(***************************************************************************)
Fn(x) == [kind |-> "fn", name |-> x]
Compose(f, g) == [kind |-> "compose", outer |-> f, inner |-> g]
Const(d) == [kind |-> "const", value |-> d]
JustFn == [kind |-> "just"]
ConstNothing == [kind |-> "constNothing"]
JustOf(f) == [kind |-> "justOf", inner |-> f]
Chain(f, g) == [kind |-> "chain", outer |-> g, inner |-> f]
\* a free function applied to its first argument only: the `doit` it returns
Doit(x, f) == [kind |-> "doit", name |-> x, bound |-> f]
\* x => (f(x) ? just(x) : nothing())
Guard(f) == [kind |-> "guard", inner |-> f]
\* b => ({ ...x, [k]: b })
Assigner(x, k) == [kind |-> "assigner", target |-> x, key |-> k]
\* a Catamorphism: { Just: f, Nothing: g }
Matcher(f, g) == [Just |-> f, Nothing |-> g]

\* x => typeof x === "number", x => x === null
Predicates == {Fn("isNumber"), Fn("isNull")}
\* x => x, x => null, x => x === null
Mappers == {Fn("identity"), Fn("toNull"), Fn("isNull")}
\* functions from a value to a Maybe
Binders == {JustFn, ConstNothing} \cup {JustOf(f) : f \in Mappers}
\* functions of no argument returning a value
Thunks == {Const(d) : d \in Vals}
\* the lists of at most MaxList elements of S
Lists(S) == UNION {[1..n -> S] : n \in 0..MaxList}

Pure(name, x) ==
  CASE name = "identity" -> x
    [] name = "toNull" -> Null
    [] name = "isNull" -> Bool(x = Null)
    [] name = "isNumber" -> Bool("num" \in DOMAIN x)

World(h) == WorldOf(h, <<>>, Undefined)
State(w, m) == w.heap[m.id]
Return(w, v) == [w EXCEPT !.ret = v]
\* what a condition makes of the value v
Truthy(v) == v \notin {Null, Undefined, Bool(FALSE), Num(0), Str("")}
\* typeof x === "function"
IsFunction(x) == "kind" \in DOMAIN x
\* the `length` property of a string or an array
Length(xs) == IF xs.typeof = "string" THEN Len(xs.str) ELSE Len(xs.items)

(***************************************************************************)
(* class Maybe: the constructors                                           *)
(***************************************************************************)
\* constructor(value) { this.state = value }
Maybe_constructor(w, value) ==
  [w EXCEPT !.heap = Append(@, value), !.ret = Ref(Len(w.heap) + 1)]

maybe_nullish(w, value) ==
  Maybe_constructor(w, IF value = Undefined THEN Null ELSE value)

maybe(w, value) == Maybe_constructor(w, value)

just(w, value) == Maybe_constructor(w, value)

nothing(w) == Maybe_constructor(w, Null)

Maybe_isJust(w, this) == State(w, this) # Null

isNothing_falsy(w, this) ==
  State(w, this) \in {Null, Undefined, Bool(FALSE), Num(0), Str("")}

Maybe_isNothing(w, this) == State(w, this) = Null

Assigned_withoutSpread(o, k, b) == Obj([j \in {k} |-> b])

\* { ...o, [k]: b }
Assigned(o, k, b) ==
  Obj([j \in DOMAIN o.fields \cup {k} |-> IF j = k THEN b ELSE o.fields[j]])

RECURSIVE Call(_, _, _)
RECURSIVE Maybe_andThen(_, _, _)
RECURSIVE traverse_doit(_, _, _)
RECURSIVE filter_doit(_, _, _)
RECURSIVE exists_doit(_, _, _)
RECURSIVE ap_doit(_, _, _)
RECURSIVE map_doit(_, _, _)
RECURSIVE andThen_doit(_, _, _)
RECURSIVE getOrElse_doit(_, _, _)
RECURSIVE getOrElseValue_doit(_, _, _)
RECURSIVE cata_doit(_, _, _)

\* The function `doit` that the free function `name` returned for fn.
Apply_doit(w, name, fn, arg) ==
  CASE name = "traverse" -> traverse_doit(w, fn, arg)
    [] name = "filter" -> filter_doit(w, fn, arg)
    [] name = "exists" -> exists_doit(w, fn, arg)
    [] name = "ap" -> ap_doit(w, fn, arg)
    [] name = "map" -> map_doit(w, fn, arg)
    [] name = "andThen" -> andThen_doit(w, fn, arg)
    [] name = "getOrElse" -> getOrElse_doit(w, fn, arg)
    [] name = "getOrElseValue" -> getOrElseValue_doit(w, fn, arg)
    [] name = "cata" -> cata_doit(w, fn, arg)

\* The invocation fd(args) of a caller-supplied function, logged on return.
Call(w, fd, args) ==
  LET done ==
        CASE fd.kind = "fn" -> Return(w, Pure(fd.name, args[1]))
          [] fd.kind = "compose" ->
               LET w1 == Call(w, fd.inner, args) IN Call(w1, fd.outer, <<w1.ret>>)
          [] fd.kind = "const" -> Return(w, fd.value)
          [] fd.kind = "just" -> just(w, args[1])
          [] fd.kind = "constNothing" -> nothing(w)
          [] fd.kind = "justOf" ->
               LET w1 == Call(w, fd.inner, args) IN just(w1, w1.ret)
          [] fd.kind = "chain" ->
               LET w1 == Call(w, fd.inner, args) IN Maybe_andThen(w1, w1.ret, fd.outer)
          [] fd.kind = "guard" ->
               LET w1 == Call(w, fd.inner, <<args[1]>>)
               IN IF Truthy(w1.ret) THEN just(w1, args[1]) ELSE nothing(w1)
          [] fd.kind = "assigner" -> Return(w, Assigned(fd.target, fd.key, args[1]))
          [] fd.kind = "doit" -> Apply_doit(w, fd.name, fd.bound, args[1])
  IN [done EXCEPT !.calls = Append(@, Invocation(fd, args, done.ret))]

(***************************************************************************)
(* class Maybe: the methods                                                *)
(***************************************************************************)
getOrElse_eager(w, this, fn) ==
  LET w1 == Call(w, fn, <<>>)
  IN IF State(w, this) = Null THEN w1 ELSE Return(w1, State(w, this))

\* return this.state === null ? fn() : this.state
Maybe_getOrElse(w, this, fn) ==
  IF State(w, this) = Null THEN Call(w, fn, <<>>) ELSE Return(w, State(w, this))

\* return this.getOrElse(() => defaultValue)
Maybe_getOrElseValue(w, this, defaultValue) ==
  Maybe_getOrElse(w, this, Const(defaultValue))

map_inverted(w, this, fn) ==
  IF State(w, this) # Null
    THEN nothing(w)
    ELSE LET w1 == Call(w, fn, <<State(w, this)>>) IN just(w1, w1.ret)

map_nullAsUndefined(w, this, fn) ==
  IF State(w, this) = Null
    THEN nothing(w)
    ELSE LET w1 == Call(w, fn, <<State(w, this)>>)
         IN just(w1, IF w1.ret = Null THEN Undefined ELSE w1.ret)

\* return this.state === null ? nothing() : just(fn(this.state))
Maybe_map(w, this, fn) ==
  IF State(w, this) = Null
    THEN nothing(w)
    ELSE LET w1 == Call(w, fn, <<State(w, this)>>) IN just(w1, w1.ret)

andThen_wrapped(w, this, fn) ==
  IF State(w, this) = Null
    THEN nothing(w)
    ELSE LET w1 == Call(w, fn, <<State(w, this)>>) IN just(w1, w1.ret)

andThen_alwaysNothing(w, this, fn) == nothing(w)

andThen_inverted(w, this, fn) ==
  IF State(w, this) # Null THEN nothing(w) ELSE Call(w, fn, <<State(w, this)>>)

\* return this.state === null ? nothing() : fn(this.state)
Maybe_andThen(w, this, fn) ==
  IF State(w, this) = Null THEN nothing(w) ELSE Call(w, fn, <<State(w, this)>>)

\* return this.map(fn)
Maybe_and(w, this, fn) == Maybe_map(w, this, fn)

orElse_always(w, this, fn) == Call(w, fn, <<>>)

\* return this.state === null ? fn() : this
Maybe_orElse(w, this, fn) ==
  IF State(w, this) = Null THEN Call(w, fn, <<>>) ELSE Return(w, this)

cata_bothBranches(w, this, matcher) ==
  LET w1 == Call(w, matcher.Nothing, <<>>)
  IN IF State(w, this) = Null THEN w1 ELSE Call(w1, matcher.Just, <<State(w, this)>>)

\* return this.state === null ? matcher.Nothing() : matcher.Just(this.state)
Maybe_cata(w, this, matcher) ==
  IF State(w, this) = Null
    THEN Call(w, matcher.Nothing, <<>>)
    ELSE Call(w, matcher.Just, <<State(w, this)>>)

do_unguarded(w, this, fn) == Return(Call(w, fn, <<State(w, this)>>), this)

\* if (this.state !== null) { fn(this.state) }  return this
Maybe_do(w, this, fn) ==
  IF State(w, this) # Null
    THEN Return(Call(w, fn, <<State(w, this)>>), this)
    ELSE Return(w, this)

\* if (this.state === null) { fn() }  return this
Maybe_elseDo(w, this, fn) ==
  IF State(w, this) = Null
    THEN Return(Call(w, fn, <<>>), this)
    ELSE Return(w, this)

exists_unguarded(w, this, predicate) == Call(w, predicate, <<State(w, this)>>)

\* return this.state !== null && predicate(this.state)
Maybe_exists(w, this, predicate) ==
  IF State(w, this) # Null
    THEN Call(w, predicate, <<State(w, this)>>)
    ELSE Return(w, Bool(FALSE))

filter_copies(w, this, predicate) ==
  LET w1 == Maybe_exists(w, this, predicate)
  IN IF Truthy(w1.ret) THEN just(w1, State(w1, this)) ELSE nothing(w1)

\* return this.exists(predicate) ? this : nothing()
Maybe_filter(w, this, predicate) ==
  LET w1 == Maybe_exists(w, this, predicate)
  IN IF Truthy(w1.ret) THEN Return(w1, this) ELSE nothing(w1)

assign_inPlace(w, this, k, other) ==
  IF State(w, this) = Null
    THEN nothing(w)
    ELSE IF State(w, this).typeof # "object" \/ State(w, this) = Null
           THEN nothing(w)
           ELSE LET w1 == IF IsFunction(other)
                            THEN Call(w, other, <<State(w, this)>>)
                            ELSE Return(w, other)
                    w2 == Maybe_map(w1, w1.ret, Assigner(State(w, this), k))
                IN IF State(w2, w2.ret) = Null
                     THEN w2
                     ELSE [w2 EXCEPT !.heap[this.id] = State(w2, w2.ret)]

assign_resolvesFirst(w, this, k, other) ==
  LET w1 == IF IsFunction(other)
              THEN Call(w, other, <<State(w, this)>>)
              ELSE Return(w, other)
  IN IF State(w, this) = Null
       THEN nothing(w1)
       ELSE IF State(w, this).typeof # "object" \/ State(w, this) = Null
              THEN nothing(w1)
              ELSE Maybe_map(w1, w1.ret, Assigner(State(w, this), k))

\* if (this.state === null) return nothing();
\* if (typeof this.state !== "object" || this.state === null) return nothing();
\* const maybe = typeof other === "function" ? other(this.state) : other;
\* return maybe.map((b) => ({ ...this.state, [k]: b }))
Maybe_assign(w, this, k, other) ==
  IF State(w, this) = Null
    THEN nothing(w)
    ELSE IF State(w, this).typeof # "object" \/ State(w, this) = Null
           THEN nothing(w)
           ELSE LET w1 == IF IsFunction(other)
                            THEN Call(w, other, <<State(w, this)>>)
                            ELSE Return(w, other)
                IN Maybe_map(w1, w1.ret, Assigner(State(w, this), k))

\* return maybeFn.isJust() ? this.map(maybeFn.state) : nothing()
Maybe_ap(w, this, maybeFn) ==
  IF Maybe_isJust(w, maybeFn)
    THEN Maybe_map(w, this, State(w, maybeFn))
    ELSE nothing(w)

(***************************************************************************)
(* functions.ts                                                            *)
(***************************************************************************)
fromNullable_truthy(w, v) ==
  IF v \in {Undefined, Null, Num(0), Str(""), Bool(FALSE)} THEN nothing(w) ELSE just(w, v)

\* if (typeof v === "undefined" || v === null) return nothing(); return just(v)
fromNullable(w, v) ==
  IF v.typeof = "undefined" \/ v = Null THEN nothing(w) ELSE just(w, v)

fromEmpty_falsy(w, xs) ==
  IF xs = Str("") THEN nothing(w) ELSE just(w, xs)

\* return xs.length === 0 ? nothing() : just(xs)
fromEmpty(w, xs) ==
  IF Length(xs) = 0 THEN nothing(w) ELSE just(w, xs)

RECURSIVE sequence_for(_, _, _, _)
\* for (const maybe of maybes) { if (maybe.state === null) return nothing();
\*                               result.push(maybe.state) }  return just(result)
sequence_for(w, maybes, i, result) ==
  IF i > Len(maybes)
    THEN just(w, Arr(result))
    ELSE IF State(w, maybes[i]) = Null
           THEN nothing(w)
           ELSE sequence_for(w, maybes, i + 1, Append(result, State(w, maybes[i])))

RECURSIVE sequence_skipping(_, _, _, _)
sequence_skipping(w, maybes, i, result) ==
  IF i > Len(maybes)
    THEN just(w, Arr(result))
    ELSE IF State(w, maybes[i]) = Null
           THEN sequence_skipping(w, maybes, i + 1, result)
           ELSE sequence_skipping(w, maybes, i + 1, Append(result, State(w, maybes[i])))

sequence_skipsNothing(w, maybes) == sequence_skipping(w, maybes, 1, <<>>)

\* const result = []; for (...) {...}; return just(result)
sequence(w, maybes) == sequence_for(w, maybes, 1, <<>>)

RECURSIVE Array_map(_, _, _, _, _)
\* values.map(fn): fn(element, index, array) on every element, in order; the
\* world returned has the array of the results in `ret`.
Array_map(w, values, fn, i, result) ==
  IF i > Len(values)
    THEN Return(w, result)
    ELSE LET w1 == Call(w, fn, <<values[i], Num(i - 1), Arr(values)>>)
         IN Array_map(w1, values, fn, i + 1, Append(result, w1.ret))

RECURSIVE map_untilNothing(_, _, _, _, _)
map_untilNothing(w, values, fn, i, result) ==
  IF i > Len(values)
    THEN Return(w, result)
    ELSE LET w1 == Call(w, fn, <<values[i], Num(i - 1), Arr(values)>>)
         IN IF State(w1, w1.ret) = Null
              THEN Return(w1, Append(result, w1.ret))
              ELSE map_untilNothing(w1, values, fn, i + 1, Append(result, w1.ret))

traverse_shortCircuit(w, fn, values) ==
  LET w1 == map_untilNothing(w, values.items, fn, 1, <<>>) IN sequence(w1, w1.ret)

traverse_unsequenced(w, fn, values) ==
  LET w1 == Array_map(w, values.items, fn, 1, <<>>) IN sequence_skipsNothing(w1, w1.ret)

\* return maybe.isJust()
isJust(w, m) == Return(w, Bool(Maybe_isJust(w, m)))

\* return maybe.isNothing()
isNothing(w, m) == Return(w, Bool(Maybe_isNothing(w, m)))

\* const doit = (maybe) => maybe.map(fn)
map_doit(w, fn, m) == Maybe_map(w, m, fn)

\* return typeof maybe === "undefined" ? doit : doit(maybe)
map(w, fn, m) ==
  IF m = Undefined THEN Return(w, Doit("map", fn)) ELSE map_doit(w, fn, m)

\* const doit = (maybe) => maybe.andThen(fn)
andThen_doit(w, fn, m) == Maybe_andThen(w, m, fn)

\* return typeof maybe === "undefined" ? doit : doit(maybe)
andThen(w, fn, m) ==
  IF m = Undefined THEN Return(w, Doit("andThen", fn)) ELSE andThen_doit(w, fn, m)

\* const doit = (maybe) => maybe.getOrElseValue(value)
getOrElseValue_doit(w, value, m) == Maybe_getOrElseValue(w, m, value)

\* return typeof maybe === "undefined" ? doit : doit(maybe)
getOrElseValue(w, value, m) ==
  IF m = Undefined
    THEN Return(w, Doit("getOrElseValue", value))
    ELSE getOrElseValue_doit(w, value, m)

\* const doit = (maybe) => maybe.getOrElse(fn)
getOrElse_doit(w, fn, m) == Maybe_getOrElse(w, m, fn)

getOrElse_valueWhenFull(w, fn, m) ==
  IF m = Undefined
    THEN Return(w, Doit("getOrElse", fn))
    ELSE getOrElseValue_doit(w, fn, m)

\* return typeof maybe === "undefined" ? doit : doit(maybe)
getOrElse(w, fn, m) ==
  IF m = Undefined THEN Return(w, Doit("getOrElse", fn)) ELSE getOrElse_doit(w, fn, m)

\* const doit = (maybe) => maybe.cata(matcher)
cata_doit(w, matcher, m) == Maybe_cata(w, m, matcher)

\* return typeof maybe === "undefined" ? doit : doit(maybe)
cata(w, matcher, m) ==
  IF m = Undefined THEN Return(w, Doit("cata", matcher)) ELSE cata_doit(w, matcher, m)

\* const doit = (maybe) => maybe.andThen((x) => (fn(x) ? just(x) : nothing()))
filter_doit(w, fn, m) == Maybe_andThen(w, m, Guard(fn))

\* return typeof maybe === "undefined" ? doit : doit(maybe)
filter(w, fn, m) ==
  IF m = Undefined THEN Return(w, Doit("filter", fn)) ELSE filter_doit(w, fn, m)

\* const doit = (maybe) => (maybe.isJust() ? fn(maybe.state) : false)
exists_doit(w, fn, m) ==
  IF Maybe_isJust(w, m)
    THEN Call(w, fn, <<State(w, m)>>)
    ELSE Return(w, Bool(FALSE))

\* return typeof maybe === "undefined" ? doit : doit(maybe)
exists(w, fn, m) ==
  IF m = Undefined THEN Return(w, Doit("exists", fn)) ELSE exists_doit(w, fn, m)

\* const doit = (maybe) => maybe.ap(maybeFn)
ap_doit(w, maybeFn, m) == Maybe_ap(w, m, maybeFn)

\* return typeof maybe === "undefined" ? doit : doit(maybe)
ap(w, maybeFn, m) ==
  IF m = Undefined THEN Return(w, Doit("ap", maybeFn)) ELSE ap_doit(w, maybeFn, m)

\* const doit = (values) => sequence(values.map(fn))
traverse_doit(w, fn, values) ==
  LET w1 == Array_map(w, values.items, fn, 1, <<>>) IN sequence(w1, w1.ret)

\* return typeof values === "undefined" ? doit : doit(values)
traverse(w, fn, values) ==
  IF values = Undefined THEN Return(w, Doit("traverse", fn)) ELSE traverse_doit(w, fn, values)

(***************************************************************************)
(* The program: callers construct instances and call their methods. `last` *)
(* records the operation just performed, `calls` the functions it invoked. *)
(***************************************************************************)
Refs == {Ref(i) : i \in 1..Len(heap)}

Init ==
  /\ heap = <<>>
  /\ calls = <<>>
  /\ last = Operation("init", Undefined, <<>>, Undefined, 0)

\* The operation returned in world w: the heap, the invocations and the record.
Did(op, recv, args, w) ==
  /\ heap' = w.heap
  /\ calls' = w.calls
  /\ last' = Operation(op, recv, args, w.ret, Len(heap))

Fits(w) == Len(w.heap) <= MaxHeap

CallJust(v) ==
  LET w == just(World(heap), v)
  IN /\ Fits(w)
     /\ Did("just", Undefined, <<v>>, w)

CallNothing ==
  LET w == nothing(World(heap))
  IN /\ Fits(w)
     /\ Did("nothing", Undefined, <<>>, w)

CallMaybe(v) ==
  LET w == maybe(World(heap), v)
  IN /\ Fits(w)
     /\ Did("maybe", Undefined, <<v>>, w)

CallFromNullable(v) ==
  LET w == fromNullable(World(heap), v)
  IN /\ Fits(w)
     /\ Did("fromNullable", Undefined, <<v>>, w)

CallGetOrElse(m, fn) ==
  LET w == Maybe_getOrElse(World(heap), m, fn)
  IN /\ Fits(w)
     /\ Did("getOrElse", m, <<fn>>, w)

CallGetOrElseValue(m, d) ==
  LET w == Maybe_getOrElseValue(World(heap), m, d)
  IN /\ Fits(w)
     /\ Did("getOrElseValue", m, <<d>>, w)

CallMap(m, fn) ==
  LET w == Maybe_map(World(heap), m, fn)
  IN /\ Fits(w)
     /\ Did("map", m, <<fn>>, w)

CallAndThen(m, fn) ==
  LET w == Maybe_andThen(World(heap), m, fn)
  IN /\ Fits(w)
     /\ Did("andThen", m, <<fn>>, w)

CallFilter(m, predicate) ==
  LET w == Maybe_filter(World(heap), m, predicate)
  IN /\ Fits(w)
     /\ Did("filter", m, <<predicate>>, w)

CallExists(m, predicate) ==
  LET w == Maybe_exists(World(heap), m, predicate)
  IN /\ Fits(w)
     /\ Did("exists", m, <<predicate>>, w)

\* filter(fn, m), or filter(fn)(m) when curried
CallFilterFn(fn, m, curried) ==
  LET w == IF curried
             THEN LET w1 == filter(World(heap), fn, Undefined) IN Call(w1, w1.ret, <<m>>)
             ELSE filter(World(heap), fn, m)
  IN /\ Fits(w)
     /\ Did("filterFn", m, <<fn>>, w)

\* exists(fn, m), or exists(fn)(m) when curried
CallExistsFn(fn, m, curried) ==
  LET w == IF curried
             THEN LET w1 == exists(World(heap), fn, Undefined) IN Call(w1, w1.ret, <<m>>)
             ELSE exists(World(heap), fn, m)
  IN /\ Fits(w)
     /\ Did("existsFn", m, <<fn>>, w)

Next ==
  \/ \E v \in Vals : CallJust(v)
  \/ CallNothing
  \/ \E v \in Vals : CallMaybe(v)
  \/ \E v \in Vals : CallFromNullable(v)
  \/ \E m \in Refs, fn \in Thunks : CallGetOrElse(m, fn)
  \/ \E m \in Refs, d \in Vals : CallGetOrElseValue(m, d)
  \/ \E m \in Refs, fn \in Mappers : CallMap(m, fn)
  \/ \E m \in Refs, fn \in Binders : CallAndThen(m, fn)
  \/ \E m \in Refs, predicate \in Predicates : CallFilter(m, predicate)
  \/ \E m \in Refs, predicate \in Predicates : CallExists(m, predicate)
  \/ \E fn \in Predicates, m \in Refs, curried \in BOOLEAN : CallFilterFn(fn, m, curried)
  \/ \E fn \in Predicates, m \in Refs, curried \in BOOLEAN : CallExistsFn(fn, m, curried)

Spec == Init /\ [][Next]_vars

(***************************************************************************)
(* The chains: callers construct instances and call every method of the    *)
(* class, and the functions over lists, on the instances constructed so    *)
(* far, one call after the other.                                          *)
(***************************************************************************)
EmptyObj == Obj([j \in {} |-> Null])
\* what the constructors of a chain are given: null, a number, an object and
\* a function
Seeds == {Null, Num(0), EmptyObj, Fn("toNull")}
\* () => nothing() and () => just(0)
Suppliers == {ConstNothing, JustOf(Const(Num(0)))}
\* a function called for its effect: it returns undefined
Effect == Const(Undefined)
Matchers == {Matcher(Fn("identity"), Const(Num(1))), Matcher(Fn("toNull"), Const(Null))}
\* the type of `assign` admits receivers holding an object (the class itself
\* also takes primitives), and that of `ap` a Maybe of a function
Assignable(x) == x = Null \/ ("typeof" \in DOMAIN x /\ (x.typeof # "object" \/ "fields" \in DOMAIN x))
Applicable(x) == x = Null \/ IsFunction(x)

CallFromEmpty(xs) ==
  LET w == fromEmpty(World(heap), xs)
  IN /\ Fits(w)
     /\ Did("fromEmpty", Undefined, <<xs>>, w)

CallAnd(m, fn) ==
  LET w == Maybe_and(World(heap), m, fn)
  IN /\ Fits(w)
     /\ Did("and", m, <<fn>>, w)

CallOrElse(m, fn) ==
  LET w == Maybe_orElse(World(heap), m, fn)
  IN /\ Fits(w)
     /\ Did("orElse", m, <<fn>>, w)

CallCata(m, matcher) ==
  LET w == Maybe_cata(World(heap), m, matcher)
  IN /\ Fits(w)
     /\ Did("cata", m, <<matcher>>, w)

CallAssign(m, k, other) ==
  LET w == Maybe_assign(World(heap), m, k, other)
  IN /\ Assignable(heap[m.id])
     /\ Fits(w)
     /\ Did("assign", m, <<k, other>>, w)

CallDo(m, fn) ==
  LET w == Maybe_do(World(heap), m, fn)
  IN /\ Fits(w)
     /\ Did("do", m, <<fn>>, w)

CallElseDo(m, fn) ==
  LET w == Maybe_elseDo(World(heap), m, fn)
  IN /\ Fits(w)
     /\ Did("elseDo", m, <<fn>>, w)

CallAp(m, maybeFn) ==
  LET w == Maybe_ap(World(heap), m, maybeFn)
  IN /\ Applicable(heap[maybeFn.id])
     /\ Fits(w)
     /\ Did("ap", m, <<maybeFn>>, w)

CallIsJust(m) ==
  LET w == isJust(World(heap), m)
  IN /\ Fits(w)
     /\ Did("isJust", m, <<>>, w)

CallIsNothing(m) ==
  LET w == isNothing(World(heap), m)
  IN /\ Fits(w)
     /\ Did("isNothing", m, <<>>, w)

CallSequence(ms) ==
  LET w == sequence(World(heap), ms)
  IN /\ Fits(w)
     /\ Did("sequence", Undefined, <<ms>>, w)

CallTraverse(fn, values) ==
  LET w == traverse(World(heap), fn, Arr(values))
  IN /\ Fits(w)
     /\ Did("traverse", Undefined, <<fn, Arr(values)>>, w)

\* the lists <<Ref(1), ..., Ref(n)>> of the first instances constructed
Firsts == {[i \in 1..n |-> Ref(i)] : n \in 0..Len(heap)}

NextChains ==
  \/ \E v \in {Null, Num(0)} : CallJust(v)
  \/ CallNothing
  \/ \E v \in Seeds : CallMaybe(v)
  \/ \E v \in {Undefined, Num(0)} : CallFromNullable(v)
  \/ \E xs \in {Str(""), Arr(<<Num(0)>>)} : CallFromEmpty(xs)
  \/ \E m \in Refs : CallGetOrElse(m, Const(Num(1)))
  \/ \E m \in Refs : CallGetOrElseValue(m, Num(1))
  \/ \E m \in Refs, fn \in {Fn("identity"), Fn("toNull")} : CallMap(m, fn)
  \/ \E m \in Refs : CallAnd(m, Fn("toNull"))
  \/ \E m \in Refs, fn \in {JustFn, ConstNothing} : CallAndThen(m, fn)
  \/ \E m \in Refs, fn \in Suppliers : CallOrElse(m, fn)
  \/ \E m \in Refs, matcher \in Matchers : CallCata(m, matcher)
  \/ \E m \in Refs, other \in Refs \cup {ConstNothing} : CallAssign(m, "x", other)
  \/ \E m \in Refs : CallDo(m, Effect)
  \/ \E m \in Refs : CallElseDo(m, Effect)
  \/ \E m \in Refs, predicate \in Predicates : CallFilter(m, predicate)
  \/ \E m \in Refs, predicate \in Predicates : CallExists(m, predicate)
  \/ \E m \in Refs, maybeFn \in Refs : CallAp(m, maybeFn)
  \/ \E m \in Refs : CallIsJust(m)
  \/ \E m \in Refs : CallIsNothing(m)
  \/ \E ms \in Firsts : CallSequence(ms)
  \/ \E values \in Lists({Null, Num(0)}) : CallTraverse(JustFn, values)

SpecChains == Init /\ [][NextChains]_vars

(***************************************************************************)
(* The other two representations of Maybe: the class hierarchy (Just.ts,   *)
(* Nothing.ts, Maybe.ts, index.ts) and the tagged union MaybeF (part_006). *)
(* Their instances are values; the caller's functions are the same         *)
(* descriptors, building instances of the representation they are used in. *)
(***************************************************************************)
\* new Just(theValue), new Nothing()
Just_constructor(theValue) == [typeof |-> "Just", value |-> theValue]
Nothing_constructor == [typeof |-> "Nothing"]

\* ({ kind: 'just', value }), ({ kind: 'nothing' })
MaybeF_just(v) == [kind |-> "just", value |-> v]
MaybeF_nothing == [kind |-> "nothing"]

\* just(v) and nothing() of the representation
Wrap(form, v) == IF form = "class" THEN Just_constructor(v) ELSE MaybeF_just(v)
Empty(form) == IF form = "class" THEN Nothing_constructor ELSE MaybeF_nothing

\* what the caller's function fd returns for args in the representation
Invoke(form, fd, args) ==
  CASE fd.kind \in {"fn", "const"} -> Call(World(<<>>), fd, args).ret
    [] fd.kind = "just" -> Wrap(form, args[1])
    [] fd.kind = "constNothing" -> Empty(form)
    [] fd.kind = "justOf" -> Wrap(form, Call(World(<<>>), fd.inner, args).ret)

\* class Just
Just_getOrElseValue(this, defaultValue) == this.value
Just_map(this, fn) == Just_constructor(Invoke("class", fn, <<this.value>>))
Just_andThen(this, fn) == Invoke("class", fn, <<this.value>>)
Just_cata(this, matcher) == Invoke("class", matcher.Just, <<this.value>>)

\* class Nothing
Nothing_getOrElseValue(this, defaultValue) == defaultValue
Nothing_map(this, fn) == Nothing_constructor
Nothing_andThen(this, fn) == Nothing_constructor
Nothing_cata(this, matcher) == Invoke("class", matcher.Nothing, <<>>)

\* the abstract methods of class Maybe, dispatched on the class of `this`
Class_getOrElseValue(this, defaultValue) ==
  IF this.typeof = "Just"
    THEN Just_getOrElseValue(this, defaultValue)
    ELSE Nothing_getOrElseValue(this, defaultValue)
Class_map(this, fn) ==
  IF this.typeof = "Just" THEN Just_map(this, fn) ELSE Nothing_map(this, fn)
Class_andThen(this, fn) ==
  IF this.typeof = "Just" THEN Just_andThen(this, fn) ELSE Nothing_andThen(this, fn)
Class_cata(this, matcher) ==
  IF this.typeof = "Just" THEN Just_cata(this, matcher) ELSE Nothing_cata(this, matcher)

\* if (typeof v === 'undefined' || v === null) return nothing(); return just(v)
Class_fromNullable(v) ==
  IF v.typeof = "undefined" \/ v = Null THEN Nothing_constructor ELSE Just_constructor(v)

\* switch (m.kind) { case 'nothing': return fold.nothing();
\*                   case 'just': return fold.just(m.value) }
MaybeF_cata(fold, m) ==
  CASE m.kind = "nothing" -> Invoke("union", fold.Nothing, <<>>)
    [] m.kind = "just" -> Invoke("union", fold.Just, <<m.value>>)

\* cata({ nothing: () => nothing(), just: x => just(fn(x)) }, mvar)
MaybeF_map(fn, mvar) == MaybeF_cata(Matcher(JustOf(fn), ConstNothing), mvar)

\* cata({ nothing: () => nothing(), just: x => fn(x) }, m)
MaybeF_andThen(fn, m) == MaybeF_cata(Matcher(fn, ConstNothing), m)

\* cata({ nothing: () => defaultVal, just: x => x }, m)
MaybeF_withDefault(defaultVal, m) ==
  MaybeF_cata(Matcher(Fn("identity"), Const(defaultVal)), m)

\* if (v == null) return nothing(); return just(v)
MaybeF_fromNullable(v) ==
  IF v \in {Null, Undefined} THEN MaybeF_nothing ELSE MaybeF_just(v)

(***************************************************************************)
(* The same program run on the three representations: instance i of the    *)
(* nullable-internal class is heap[i], of the class hierarchy last.lhs[i], *)
(* of the tagged union last.rhs[i]; last.args holds what the last          *)
(* operation returned in each when it returns a plain value.               *)
(***************************************************************************)
Justs == IF last.op = "init" THEN <<>> ELSE last.lhs
MaybeFs == IF last.op = "init" THEN <<>> ELSE last.rhs
Instances == 1..Len(heap)

FormJust(v) ==
  LET w == just(World(heap), v)
  IN /\ Fits(w)
     /\ heap' = w.heap
     /\ calls' = w.calls
     /\ last' = Evaluation("just", <<v>>, Append(Justs, Just_constructor(v)),
                           Append(MaybeFs, MaybeF_just(v)))

FormNothing ==
  LET w == nothing(World(heap))
  IN /\ Fits(w)
     /\ heap' = w.heap
     /\ calls' = w.calls
     /\ last' = Evaluation("nothing", <<>>, Append(Justs, Nothing_constructor),
                           Append(MaybeFs, MaybeF_nothing))

FormFromNullable(v) ==
  LET w == fromNullable(World(heap), v)
  IN /\ Fits(w)
     /\ heap' = w.heap
     /\ calls' = w.calls
     /\ last' = Evaluation("fromNullable", <<v>>, Append(Justs, Class_fromNullable(v)),
                           Append(MaybeFs, MaybeF_fromNullable(v)))

FormMap(i, fn) ==
  LET w == Maybe_map(World(heap), Ref(i), fn)
  IN /\ Fits(w)
     /\ heap' = w.heap
     /\ calls' = w.calls
     /\ last' = Evaluation("map", <<i, fn>>, Append(Justs, Class_map(Justs[i], fn)),
                           Append(MaybeFs, MaybeF_map(fn, MaybeFs[i])))

FormAndThen(i, fn) ==
  LET w == Maybe_andThen(World(heap), Ref(i), fn)
  IN /\ Fits(w)
     /\ heap' = w.heap
     /\ calls' = w.calls
     /\ last' = Evaluation("andThen", <<i, fn>>, Append(Justs, Class_andThen(Justs[i], fn)),
                           Append(MaybeFs, MaybeF_andThen(fn, MaybeFs[i])))

FormCata(i, matcher) ==
  LET w == Maybe_cata(World(heap), Ref(i), matcher)
  IN /\ heap' = w.heap
     /\ calls' = w.calls
     /\ last' = Evaluation("cata",
                           <<w.ret, Class_cata(Justs[i], matcher), MaybeF_cata(matcher, MaybeFs[i])>>,
                           Justs, MaybeFs)

FormGetOrElseValue(i, d) ==
  LET w == Maybe_getOrElseValue(World(heap), Ref(i), d)
  IN /\ heap' = w.heap
     /\ calls' = w.calls
     /\ last' = Evaluation("getOrElseValue",
                           <<w.ret, Class_getOrElseValue(Justs[i], d), MaybeF_withDefault(d, MaybeFs[i])>>,
                           Justs, MaybeFs)

NextForms ==
  \/ \E v \in Vals : FormJust(v)
  \/ FormNothing
  \/ \E v \in Vals : FormFromNullable(v)
  \/ \E i \in Instances, fn \in Mappers : FormMap(i, fn)
  \/ \E i \in Instances, fn \in Binders : FormAndThen(i, fn)
  \/ \E i \in Instances, matcher \in Matchers : FormCata(i, matcher)
  \/ \E i \in Instances, d \in {Num(1), Null} : FormGetOrElseValue(i, d)

SpecForms == Init /\ [][NextForms]_vars

(***************************************************************************)
(* The laws: each step evaluates the two sides of one law, the left one    *)
(* first, in a fresh scope (an empty heap), on inputs drawn from the sets  *)
(* above, and records what each side returned.                             *)
(***************************************************************************)
Ctors == {"just", "nothing", "maybe", "fromNullable"}

\* One of the ways a caller obtains a Maybe.
Construct(w, ctor, v) ==
  CASE ctor = "just" -> just(w, v)
    [] ctor = "nothing" -> nothing(w)
    [] ctor = "maybe" -> maybe(w, v)
    [] ctor = "fromNullable" -> fromNullable(w, v)

\* just(v).map(g).map(f)  against  just(v).map(x => f(g(x)))
LawFunctorComposition(v, f, g) ==
  LET a0 == just(World(<<>>), v)
      a1 == Maybe_map(a0, a0.ret, g)
      a2 == Maybe_map(a1, a1.ret, f)
      b0 == just(a2, v)
      b1 == Maybe_map(b0, b0.ret, Compose(f, g))
  IN /\ heap' = b1.heap
     /\ calls' = b1.calls
     /\ last' = Evaluation("functorComposition", <<v, f, g>>, a2.ret, b1.ret)

\* just(v).andThen(f)  against  f(v)
LawLeftIdentity(v, f) ==
  LET a0 == just(World(<<>>), v)
      a1 == Maybe_andThen(a0, a0.ret, f)
      b1 == Call(a1, f, <<v>>)
  IN /\ heap' = b1.heap
     /\ calls' = b1.calls
     /\ last' = Evaluation("leftIdentity", <<v, f>>, a1.ret, b1.ret)

\* m.andThen(f).andThen(g)  against  m.andThen(x => f(x).andThen(g))
LawAssociativity(ctor, v, f, g) ==
  LET m == Construct(World(<<>>), ctor, v)
      a1 == Maybe_andThen(m, m.ret, f)
      a2 == Maybe_andThen(a1, a1.ret, g)
      b1 == Maybe_andThen(a2, m.ret, Chain(f, g))
  IN /\ heap' = b1.heap
     /\ calls' = b1.calls
     /\ last' = Evaluation("associativity", <<m.ret, f, g>>, a2.ret, b1.ret)

\* fromNullable(x)  and then  fromNullable(x).getOrElseValue(d)
LawRoundTrip(x, d) ==
  LET a1 == fromNullable(World(<<>>), x)
      b1 == Maybe_getOrElseValue(a1, a1.ret, d)
  IN /\ heap' = b1.heap
     /\ calls' = b1.calls
     /\ last' = Evaluation("roundTrip", <<x, d>>, a1.ret, b1.ret)

NextLaws ==
  \/ \E v \in Vals, f \in Mappers, g \in Mappers : LawFunctorComposition(v, f, g)
  \/ \E v \in Vals, f \in Binders : LawLeftIdentity(v, f)
  \/ \E ctor \in Ctors, v \in Vals, f \in Binders, g \in Binders :
       LawAssociativity(ctor, v, f, g)
  \/ \E x \in Vals, d \in Vals : LawRoundTrip(x, d)

SpecLaws == Init /\ [][NextLaws]_vars

(***************************************************************************)
(* The uses: from the initial state (an empty heap), a caller builds the   *)
(* operands of one function, calls it, and records the call. `calls`       *)
(* holds the invocations the function made.                                *)
(***************************************************************************)
\* the strings and arrays handed to fromEmpty
Collections == {Str(""), Str("a"), Str("ab")} \cup {Arr(l) : l \in Lists(Vals)}

RECURSIVE Operands(_, _, _, _)
\* [maybe(v1), maybe(v2), ...]: the world after building them has the list of
\* their references in `ret`.
Operands(w, vs, i, refs) ==
  IF i > Len(vs)
    THEN Return(w, refs)
    ELSE LET w1 == maybe(w, vs[i]) IN Operands(w1, vs, i + 1, Append(refs, w1.ret))

UseFromEmpty(xs) ==
  LET w == fromEmpty(World(<<>>), xs)
  IN /\ last.op = "init"
     /\ heap' = w.heap
     /\ calls' = w.calls
     /\ last' = Operation("fromEmpty", Undefined, <<xs>>, w.ret, 0)

UseSequence(vs) ==
  LET w0 == Operands(World(<<>>), vs, 1, <<>>)
      w == sequence(w0, w0.ret)
  IN /\ last.op = "init"
     /\ heap' = w.heap
     /\ calls' = w.calls
     /\ last' = Operation("sequence", Undefined, <<w0.ret>>, w.ret, Len(w0.heap))

\* traverse(fn, values), or traverse(fn)(values) when curried
UseTraverse(fn, values, curried) ==
  LET w0 == World(<<>>)
      w == IF curried
             THEN LET w1 == traverse(w0, fn, Undefined) IN Call(w1, w1.ret, <<Arr(values)>>)
             ELSE traverse(w0, fn, Arr(values))
  IN /\ last.op = "init"
     /\ heap' = w.heap
     /\ calls' = w.calls
     /\ last' = Operation("traverse", Undefined, <<fn, Arr(values)>>, w.ret, 0)

\* maybeFn = maybe(f), m = <ctor>(v); m.ap(maybeFn)
UseAp(f, ctor, v) ==
  LET w0 == maybe(World(<<>>), f)
      w1 == Construct(w0, ctor, v)
      w == Maybe_ap(w1, w1.ret, w0.ret)
  IN /\ last.op = "init"
     /\ heap' = w.heap
     /\ calls' = w.calls
     /\ last' = Operation("ap", w1.ret, <<w0.ret>>, w.ret, Len(w1.heap))

\* maybeFn = maybe(f), m = <ctor>(v); ap(maybeFn, m), or ap(maybeFn)(m) when
\* curried
UseApFn(f, ctor, v, curried) ==
  LET w0 == maybe(World(<<>>), f)
      w1 == Construct(w0, ctor, v)
      w == IF curried
             THEN LET w2 == ap(w1, w0.ret, Undefined) IN Call(w2, w2.ret, <<w1.ret>>)
             ELSE ap(w1, w0.ret, w1.ret)
  IN /\ last.op = "init"
     /\ heap' = w.heap
     /\ calls' = w.calls
     /\ last' = Operation("apFn", w1.ret, <<w0.ret>>, w.ret, Len(w1.heap))

\* the plain objects {} and { x: 1 }
Objs == {EmptyObj, Obj([j \in {"x"} |-> Num(1)])}
Keys == {"x", "y"}
\* what a receiver of assign holds, and what the other Maybe holds
Assignees == Vals \cup Objs

\* `other`: the Maybe maybe(b) when b is a value, the function b itself when
\* b is one. The world returned has it in `ret`.
Other(w, b) == IF IsFunction(b) THEN Return(w, b) ELSE maybe(w, b)

\* maybe(a).assign(k, other)
UseAssign(a, k, b) ==
  LET w0 == maybe(World(<<>>), a)
      w1 == Other(w0, b)
      w == Maybe_assign(w1, w0.ret, k, w1.ret)
  IN /\ last.op = "init"
     /\ heap' = w.heap
     /\ calls' = w.calls
     /\ last' = Operation("assign", w0.ret, <<k, w1.ret>>, w.ret, Len(w1.heap))

\* maybe(a).assign(k1, other1).assign(k2, other2)
UseAssignTwice(a, k1, b1, k2, b2) ==
  LET w0 == maybe(World(<<>>), a)
      w1 == Other(w0, b1)
      w2 == Other(w1, b2)
      w3 == Maybe_assign(w2, w0.ret, k1, w1.ret)
      w == Maybe_assign(w3, w3.ret, k2, w2.ret)
  IN /\ last.op = "init"
     /\ heap' = w.heap
     /\ calls' = w.calls
     /\ last' = Operation("assignTwice", w0.ret, <<k1, w1.ret, k2, w2.ret>>, w.ret,
                          Len(w2.heap))

\* the curried free functions, and what each takes as its first argument
Curried == {"map", "andThen", "getOrElse", "getOrElseValue", "cata", "filter", "exists", "ap"}
FirstArgs(f) ==
  CASE f = "map" -> Mappers
    [] f = "andThen" -> Binders
    [] f = "getOrElse" -> Thunks
    [] f = "getOrElseValue" -> Vals
    [] f = "cata" -> Matchers
    [] f \in {"filter", "exists"} -> Predicates
    [] f = "ap" -> Mappers \cup {Null}

\* f(a, m), or f(a) when m is undefined
FreeFunction(w, f, a, m) ==
  CASE f = "map" -> map(w, a, m)
    [] f = "andThen" -> andThen(w, a, m)
    [] f = "getOrElse" -> getOrElse(w, a, m)
    [] f = "getOrElseValue" -> getOrElseValue(w, a, m)
    [] f = "cata" -> cata(w, a, m)
    [] f = "filter" -> filter(w, a, m)
    [] f = "exists" -> exists(w, a, m)
    [] f = "ap" -> ap(w, a, m)

\* m.f(a)
Method(w, f, m, a) ==
  CASE f = "map" -> Maybe_map(w, m, a)
    [] f = "andThen" -> Maybe_andThen(w, m, a)
    [] f = "getOrElse" -> Maybe_getOrElse(w, m, a)
    [] f = "getOrElseValue" -> Maybe_getOrElseValue(w, m, a)
    [] f = "cata" -> Maybe_cata(w, m, a)
    [] f = "filter" -> Maybe_filter(w, m, a)
    [] f = "exists" -> Maybe_exists(w, m, a)
    [] f = "ap" -> Maybe_ap(w, m, a)

\* m = <ctor>(v); f(a)(m), f(a, m) and m.f(a), where a is maybe(x) for ap and
\* x itself for the others
UseEquivalent(f, x, ctor, v) ==
  LET w0 == IF f = "ap" THEN maybe(World(<<>>), x) ELSE Return(World(<<>>), x)
      w1 == Construct(w0, ctor, v)
      w2 == FreeFunction(w1, f, w0.ret, Undefined)
      w3 == Call(w2, w2.ret, <<w1.ret>>)
      w4 == FreeFunction(w3, f, w0.ret, w1.ret)
      w == Method(w4, f, w1.ret, w0.ret)
  IN /\ last.op = "init"
     /\ heap' = w.heap
     /\ calls' = w.calls
     /\ last' = Operation("equivalent", w1.ret, <<Str(f), w0.ret>>,
                          <<w3.ret, w4.ret, w.ret>>, Len(w1.heap))

\* traverse(fn)(values) and traverse(fn, values)
UseTraverseEquivalent(fn, values) ==
  LET w0 == World(<<>>)
      w1 == traverse(w0, fn, Undefined)
      w2 == Call(w1, w1.ret, <<Arr(values)>>)
      w == traverse(w2, fn, Arr(values))
  IN /\ last.op = "init"
     /\ heap' = w.heap
     /\ calls' = w.calls
     /\ last' = Operation("traverseEquivalent", Undefined, <<fn, Arr(values)>>,
                          <<w2.ret, w.ret>>, 0)

NextUses ==
  \/ \E xs \in Collections : UseFromEmpty(xs)
  \/ \E vs \in Lists(Vals) : UseSequence(vs)
  \/ \E fn \in Binders, values \in Lists(Vals), curried \in BOOLEAN :
       UseTraverse(fn, values, curried)
  \/ \E f \in Mappers \cup {Null}, ctor \in Ctors, v \in Vals : UseAp(f, ctor, v)
  \/ \E f \in Mappers \cup {Null}, ctor \in Ctors, v \in Vals, curried \in BOOLEAN :
       UseApFn(f, ctor, v, curried)
  \/ \E a \in Assignees, k \in Keys, b \in Assignees \cup Binders : UseAssign(a, k, b)
  \/ \E a \in Assignees, k1 \in Keys, b1 \in Assignees \cup Binders,
        k2 \in Keys, b2 \in Assignees \cup Binders :
       UseAssignTwice(a, k1, b1, k2, b2)
  \/ \E f \in Curried : \E x \in FirstArgs(f), ctor \in Ctors, v \in Vals :
       UseEquivalent(f, x, ctor, v)
  \/ \E fn \in Binders, values \in Lists(Vals) : UseTraverseEquivalent(fn, values)

SpecUses == Init /\ [][NextUses]_vars

(***************************************************************************)
(* What the claims speak of, read off the current state.                   *)
(***************************************************************************)
Here == WorldOf(heap, calls, Undefined)
Present(m) == Maybe_isJust(Here, m)
Absent(m) == Maybe_isNothing(Here, m)
Value(m) == State(Here, m)
\* the same presence and, when present, the same contained value
Same(m1, m2) == (Present(m1) <=> Present(m2)) /\ (Present(m1) => Value(m1) = Value(m2))
\* the invocations of fn during the last operation
Invocations(fn) == {i \in DOMAIN calls : calls[i].fn = fn}
\* the last operation allocated the instance m
Fresh(m) == m.id > last.base

\* C1: just(v) is in the Just state (isJust() true, isNothing() false) for
\* every value v, and nothing() is in the Nothing state.
C1_ConstructorsFixState ==
  /\ last.op = "just" => Present(last.ret) /\ ~Absent(last.ret)
  /\ last.op = "nothing" => Absent(last.ret) /\ ~Present(last.ret)

\* C2: m.map(fn) on a present m holding v invokes fn exactly once, with v, and
\* returns a new present Maybe holding fn(v); on an absent m it returns an
\* absent Maybe and never invokes fn.
C2_MapContract ==
  last.op = "map" =>
    LET fn == last.args[1] IN
    IF Present(last.recv)
      THEN /\ Cardinality(Invocations(fn)) = 1
           /\ \A i \in Invocations(fn) :
                /\ calls[i].args = <<Value(last.recv)>>
                /\ Present(last.ret)
                /\ Value(last.ret) = calls[i].ret
           /\ Fresh(last.ret)
      ELSE Absent(last.ret) /\ Invocations(fn) = {}

\* C3: m.andThen(fn) on a present m holding v invokes fn exactly once, with v,
\* and returns the very Maybe fn returned (no second wrapping); on an absent m
\* it returns an absent Maybe and never invokes fn.
C3_AndThenContract ==
  last.op = "andThen" =>
    LET fn == last.args[1] IN
    IF Present(last.recv)
      THEN /\ Cardinality(Invocations(fn)) = 1
           /\ \A i \in Invocations(fn) :
                /\ calls[i].args = <<Value(last.recv)>>
                /\ last.ret = calls[i].ret
      ELSE Absent(last.ret) /\ calls = <<>>

C3_Witness ==
  /\ last.op = "andThen"
  /\ Present(last.recv)
  /\ last.args[1] = JustOf(Fn("isNull"))
  /\ Present(last.ret)
  /\ Value(last.ret) = Bool(FALSE)

\* C4: m.getOrElse(fallbackFn) returns the contained value without invoking
\* fallbackFn when m is present, and invokes it exactly once and returns its
\* result when m is absent; m.getOrElseValue(d) returns the contained value
\* when m is present and d when it is absent.
C4_GetOrElseContract ==
  /\ last.op = "getOrElse" =>
       LET fn == last.args[1] IN
       IF Present(last.recv)
         THEN last.ret = Value(last.recv) /\ Invocations(fn) = {}
         ELSE /\ Cardinality(Invocations(fn)) = 1
              /\ \A i \in Invocations(fn) : last.ret = calls[i].ret
  /\ last.op = "getOrElseValue" =>
       last.ret = IF Present(last.recv) THEN Value(last.recv) ELSE last.args[1]

C4_Witness ==
  /\ last.op = "getOrElse"
  /\ Absent(last.recv)
  /\ last.args[1] = Const(Num(1))
  /\ last.ret = Num(1)

\* C5: functor composition: just(v).map(g).map(f) has the same presence and
\* contained value as just(v).map(x => f(g(x))), for all v, f and g, functions
\* whose result is null included.
C5_FunctorComposition ==
  last.op = "functorComposition" => Same(last.lhs, last.rhs)

\* C6: monad left identity: just(v).andThen(f) has the same presence and
\* contained value as f(v), for every value v and every f returning a Maybe.
C6_LeftIdentity ==
  last.op = "leftIdentity" => Same(last.lhs, last.rhs)

\* C7: monad right identity: m.andThen(just) has the same presence and
\* contained value as m, for every Maybe m, present or absent.
C7_RightIdentity ==
  (last.op = "andThen" /\ last.args[1] = JustFn) => Same(last.ret, last.recv)

C7_Witness ==
  /\ last.op = "andThen"
  /\ last.args[1] = JustFn
  /\ Present(last.recv)
  /\ Fresh(last.ret)

\* C8: monad associativity: m.andThen(f).andThen(g) has the same presence and
\* contained value as m.andThen(x => f(x).andThen(g)), for every Maybe m and
\* all f, g returning Maybes.
C8_Associativity ==
  last.op = "associativity" => Same(last.lhs, last.rhs)

C8_Witness ==
  /\ last.op = "associativity"
  /\ Present(last.args[1])
  /\ Present(last.lhs)
  /\ last.args[2] = JustOf(Fn("isNull"))
  /\ last.args[3] = JustOf(Fn("isNull"))

\* C9: functor identity: just(v).map(x => x) has the same presence and
\* contained value as just(v), and nothing().map(x => x) is absent.
C9_FunctorIdentity ==
  (last.op = "map" /\ last.args[1] = Fn("identity")) => Same(last.ret, last.recv)

C9_Witness ==
  /\ last.op = "map"
  /\ last.args[1] = Fn("identity")
  /\ Present(last.recv)
  /\ Fresh(last.ret)

\* C10: fromNullable(x) is absent iff x is null or undefined and otherwise
\* present holding x (0, '' and false are present), so that
\* fromNullable(x).getOrElseValue(d) is x when x is neither null nor
\* undefined and d otherwise.
C10_FromNullableRoundTrip ==
  last.op = "roundTrip" =>
    LET x == last.args[1]
        d == last.args[2]
    IN /\ Absent(last.lhs) <=> x \in {Null, Undefined}
       /\ Present(last.lhs) <=> x \notin {Null, Undefined}
       /\ Present(last.lhs) => Value(last.lhs) = x
       /\ last.rhs = IF x \in {Null, Undefined} THEN d ELSE x

C10_Witness ==
  /\ last.op = "roundTrip"
  /\ last.args[1] = Num(0)
  /\ last.args[2] = Num(1)
  /\ Present(last.lhs)
  /\ last.rhs = Num(0)

\* the invocations of fn, in the order in which they returned
CallsOf(fn) == SelectSeq(calls, LAMBDA c : c.fn = fn)
\* the state of the Maybe that fn(x) returns
Applied(fn, x) == LET w == Call(World(<<>>), fn, <<x>>) IN State(w, w.ret)

\* C11: fromEmpty(xs) is absent iff xs.length is 0 (the empty string, the
\* empty array), and otherwise is present holding xs itself.
C11_FromEmpty ==
  last.op = "fromEmpty" =>
    LET xs == last.args[1] IN
    /\ Absent(last.ret) <=> xs \in {Str(""), Arr(<<>>)}
    /\ Present(last.ret) <=> xs \notin {Str(""), Arr(<<>>)}
    /\ Present(last.ret) => Value(last.ret) = xs

C11_Witness ==
  /\ last.op = "fromEmpty"
  /\ last.args[1] = Arr(<<Null>>)
  /\ Present(last.ret)
  /\ Value(last.ret) = Arr(<<Null>>)

\* C12: sequence(ms) is present iff every element of ms is present; when
\* present it holds the elements' values in input order, as many as ms has
\* (the empty list gives present holding the empty list); it is absent when
\* some element is absent, wherever it stands.
C12_Sequence ==
  last.op = "sequence" =>
    LET ms == last.args[1] IN
    /\ Present(last.ret) <=> \A i \in DOMAIN ms : Present(ms[i])
    /\ Absent(last.ret) <=> \E i \in DOMAIN ms : Absent(ms[i])
    /\ Present(last.ret) =>
         /\ Value(last.ret).typeof = "object"
         /\ Len(Value(last.ret).items) = Len(ms)
         /\ \A i \in DOMAIN ms : Value(last.ret).items[i] = Value(ms[i])

C12_Witness ==
  /\ last.op = "sequence"
  /\ Len(last.args[1]) = 3
  /\ Present(last.ret)
  /\ Value(last.ret) = Arr(<<Num(1), Undefined, Num(0)>>)

\* C13: traverse(fn, list) returns what sequence returns for the list of the
\* fn(x), x in list, in order: present holding the unwrapped results in input
\* order iff fn returns present for every element (present holding the
\* empty list for the empty list), absent otherwise.
C13_Traverse ==
  last.op = "traverse" =>
    LET fn == last.args[1]
        list == last.args[2].items
    IN /\ Present(last.ret) <=> \A i \in DOMAIN list : Applied(fn, list[i]) # Null
       /\ Absent(last.ret) <=> \E i \in DOMAIN list : Applied(fn, list[i]) = Null
       /\ Present(last.ret) =>
            Value(last.ret) = Arr([i \in DOMAIN list |-> Applied(fn, list[i])])

C13_Witness ==
  /\ last.op = "traverse"
  /\ last.args[1] = JustOf(Fn("isNull"))
  /\ last.args[2] = Arr(<<Null, Num(1)>>)
  /\ Present(last.ret)
  /\ Value(last.ret) = Arr(<<Bool(TRUE), Bool(FALSE)>>)

\* C14: traverse(fn, list) evaluates the elements in list order and never
\* invokes fn on an element that comes after the first element for which fn
\* returned an absent Maybe.
C14_TraverseStopsAtFirstNothing ==
  last.op = "traverse" =>
    LET rs == CallsOf(last.args[1]) IN
    /\ \A i \in DOMAIN rs : rs[i].args[1] = last.args[2].items[i]
    /\ \A i, j \in DOMAIN rs : i < j => Present(rs[i].ret)

\* C14, amended: traverse(fn, list) invokes fn exactly once on every element
\* of list, in list order, the elements after the first one for which fn
\* returned an absent Maybe included.
C14_TraverseEvaluatesAll ==
  last.op = "traverse" =>
    LET rs == CallsOf(last.args[1])
        list == last.args[2].items
    IN /\ Len(rs) = Len(list)
       /\ \A i \in DOMAIN rs : rs[i].args[1] = list[i]

C14_Witness ==
  /\ last.op = "traverse"
  /\ last.args[1] = JustFn
  /\ last.args[2] = Arr(<<Null, Num(1)>>)
  /\ Len(CallsOf(JustFn)) = 2
  /\ Absent(CallsOf(JustFn)[1].ret)
  /\ Absent(last.ret)

\* the predicate fn returns true for the value v
Holds(fn, v) == Pure(fn.name, v) = Bool(TRUE)

\* C15: m.filter(predicate) returns m itself (the same instance) when m is
\* present and predicate(value) is true, and an absent Maybe otherwise;
\* predicate is invoked at most once, and never when m is absent.
C15_FilterMethod ==
  last.op = "filter" =>
    LET predicate == last.args[1] IN
    /\ IF Present(last.recv) /\ Holds(predicate, Value(last.recv))
         THEN last.ret = last.recv
         ELSE Absent(last.ret)
    /\ Cardinality(Invocations(predicate)) <= 1
    /\ Absent(last.recv) => calls = <<>>

C15_Witness ==
  /\ last.op = "filter"
  /\ Present(last.recv)
  /\ Value(last.recv) = Num(0)
  /\ last.args[1] = Fn("isNumber")
  /\ last.ret = last.recv
  /\ Cardinality(Invocations(Fn("isNumber"))) = 1

\* C16: the free function filter(fn, m), two-argument or curried, returns the
\* original Maybe m (the same instance, as m.filter(fn) does) when m is a
\* Just and fn returns true for its value, and Nothing otherwise.
C16_FilterFnReturnsOriginal ==
  last.op = "filterFn" =>
    IF Present(last.recv) /\ Holds(last.args[1], Value(last.recv))
      THEN last.ret = last.recv
      ELSE Absent(last.ret)

\* C17: exists(predicate), as method and as free function, returns true iff
\* the Maybe is present and predicate(value) is true; for an absent Maybe it
\* returns false without invoking predicate.
C17_Exists ==
  last.op \in {"exists", "existsFn"} =>
    LET predicate == last.args[1] IN
    /\ last.ret \in {Bool(TRUE), Bool(FALSE)}
    /\ last.ret = Bool(TRUE) <=>
         Present(last.recv) /\ Holds(predicate, Value(last.recv))
    /\ Absent(last.recv) => last.ret = Bool(FALSE) /\ Invocations(predicate) = {}

C17_Witness ==
  /\ last.op = "exists"
  /\ Present(last.recv)
  /\ last.args[1] = Fn("isNumber")
  /\ last.ret = Bool(TRUE)

\* C18: m.ap(maybeFn), and equally the free function ap(maybeFn, m): when
\* both m (holding v) and maybeFn (holding f) are present the result is
\* present holding f(v); when either is absent the result is absent and no
\* function is applied.
C18_Ap ==
  last.op \in {"ap", "apFn"} =>
    LET m == last.recv
        maybeFn == last.args[1]
    IN IF Present(m) /\ Present(maybeFn)
         THEN /\ Present(last.ret)
              /\ Value(last.ret) = Pure(Value(maybeFn).name, Value(m))
         ELSE /\ Absent(last.ret)
              /\ \A i \in DOMAIN calls : calls[i].fn \notin Mappers

\* the Maybe that `other` resolves to in the last operation: `other` itself,
\* or what it returned when it is a function
Resolved(other) == IF IsFunction(other) THEN CallsOf(other)[1].ret ELSE other
\* the object o with the key k set to b, every other pair kept
Plus(o, k, b) ==
  [typeof |-> "object",
   fields |-> [j \in DOMAIN o.fields \cup {k} |-> IF j = k THEN b ELSE o.fields[j]]]

\* C19: for a present receiver holding an object o and `other` a Maybe or a
\* function of o returning a Maybe: if other resolves to present b,
\* assign(k, other) is present holding a new object with every pair of o plus
\* k mapped to b, and successive assigns accumulate their keys; if the
\* receiver or the resolved other is absent, the result is absent.
C19_Assign ==
  /\ last.op = "assign" =>
       LET k == last.args[1]
           other == last.args[2]
       IN IF Present(last.recv)
            THEN Value(last.recv).typeof = "object" =>
                   /\ IsFunction(other) =>
                        /\ Len(CallsOf(other)) = 1
                        /\ CallsOf(other)[1].args = <<Value(last.recv)>>
                   /\ IF Present(Resolved(other))
                        THEN /\ Present(last.ret)
                             /\ Fresh(last.ret)
                             /\ Value(last.ret) =
                                  Plus(Value(last.recv), k, Value(Resolved(other)))
                        ELSE Absent(last.ret)
            ELSE Absent(last.ret) /\ calls = <<>>
  /\ last.op = "assignTwice" =>
       LET o == Value(last.recv)
           k1 == last.args[1]
           other1 == last.args[2]
           k2 == last.args[3]
           other2 == last.args[4]
           first == IF IsFunction(other1) THEN CallsOf(other1)[1].ret ELSE other1
           second == IF IsFunction(other2)
                       THEN CallsOf(other2)[Len(CallsOf(other2))]
                       ELSE Invocation(other2, <<Plus(o, k1, Value(first))>>, other2)
       IN IF Present(last.recv)
            THEN o.typeof = "object" =>
                   IF Present(first)
                     THEN /\ second.args = <<Plus(o, k1, Value(first))>>
                          /\ IF Present(second.ret)
                               THEN /\ Present(last.ret)
                                    /\ Value(last.ret) =
                                         Plus(Plus(o, k1, Value(first)), k2, Value(second.ret))
                               ELSE Absent(last.ret)
                     ELSE Absent(last.ret)
            ELSE Absent(last.ret) /\ calls = <<>>

C19_Witness ==
  /\ last.op = "assignTwice"
  /\ Value(last.recv) = Obj([j \in {"x"} |-> Num(1)])
  /\ last.args[1] = "y"
  /\ last.args[3] = "x"
  /\ IsFunction(last.args[4])
  /\ Present(last.ret)
  /\ DOMAIN Value(last.ret).fields = {"x", "y"}
  /\ Value(last.ret).fields["y"] = Num(0)
  /\ Value(last.ret).fields["x"] = Bool(FALSE)

\* C20: assign on a present receiver holding a primitive (non-object) value
\* does not fail: the value is converted to an object before assigning, so
\* just(2).assign('x', just(42)) is a present Maybe whose value has key x
\* equal to 42.
C20_AssignOnPrimitive ==
  (/\ last.op = "assign"
   /\ Present(last.recv)
   /\ Value(last.recv).typeof # "object"
   /\ ~IsFunction(last.args[2])
   /\ Present(last.args[2])) =>
    /\ Present(last.ret)
    /\ Value(last.ret).typeof = "object"
    /\ last.args[1] \in DOMAIN Value(last.ret).fields
    /\ Value(last.ret).fields[last.args[1]] = Value(last.args[2])

\* x is a reference to an instance
IsRef(x) == "id" \in DOMAIN x

\* C21: m.do(f) invokes f exactly once, with the contained value, iff m is
\* present; m.elseDo(g) invokes g exactly once iff m is absent; both return m
\* itself.
C21_DoElseDo ==
  /\ last.op = "do" =>
       /\ last.ret = last.recv
       /\ calls = IF Present(last.recv)
                    THEN <<Invocation(last.args[1], <<Value(last.recv)>>, Undefined)>>
                    ELSE <<>>
  /\ last.op = "elseDo" =>
       /\ last.ret = last.recv
       /\ calls = IF Absent(last.recv)
                    THEN <<Invocation(last.args[1], <<>>, Undefined)>>
                    ELSE <<>>

C21_Witness ==
  /\ last.op = "do"
  /\ Value(last.recv) = Num(0)
  /\ Len(calls) = 1
  /\ last.ret = last.recv

\* C22: m.orElse(fn) returns m itself without invoking fn when m is present,
\* and the Maybe that fn() produced, present or absent, when m is absent.
C22_OrElse ==
  last.op = "orElse" =>
    IF Present(last.recv)
      THEN last.ret = last.recv /\ calls = <<>>
      ELSE /\ Len(CallsOf(last.args[1])) = 1
           /\ CallsOf(last.args[1])[1].args = <<>>
           /\ last.ret = CallsOf(last.args[1])[1].ret
           /\ Fresh(last.ret)

C22_Witness ==
  /\ last.op = "orElse"
  /\ Absent(last.recv)
  /\ Present(last.ret)
  /\ Value(last.ret) = Num(0)

\* C23: m.cata(matcher) runs exactly one branch: matcher.Just(value), never
\* matcher.Nothing, when m is present; matcher.Nothing(), never matcher.Just,
\* when m is absent; the result is what that branch returned.
C23_Cata ==
  last.op = "cata" =>
    calls = IF Present(last.recv)
              THEN <<Invocation(last.args[1].Just, <<Value(last.recv)>>, last.ret)>>
              ELSE <<Invocation(last.args[1].Nothing, <<>>, last.ret)>>

C23_Witness ==
  /\ last.op = "cata"
  /\ Value(last.recv) = EmptyObj
  /\ last.args[1] = Matcher(Fn("identity"), Const(Num(1)))
  /\ last.ret = EmptyObj

\* C24: of every instance reachable through the constructors (just, nothing,
\* maybe, fromNullable, fromEmpty) and any sequence of operations, exactly
\* one of isJust() and isNothing() is true.
C24_JustXorNothing ==
  /\ \A m \in Refs : Maybe_isJust(Here, m) # Maybe_isNothing(Here, m)
  /\ last.op = "isJust" => last.ret = Bool(~Maybe_isNothing(Here, last.recv))
  /\ last.op = "isNothing" => last.ret = Bool(~Maybe_isJust(Here, last.recv))

C24_Witness ==
  /\ last.op = "isNothing"
  /\ last.ret = Bool(FALSE)
  /\ Value(last.recv) = Num(0)
  /\ Len(heap) = MaxHeap
  /\ \E m \in Refs : Value(m) = Arr(<<Num(0)>>)

\* C25: no operation changes the presence or the contained value of its
\* receiver or of a Maybe passed to it: every instance keeps the state it
\* was constructed with, and assign leaves the receiver's object without the
\* new key.
C25_Immutable ==
  [][\A i \in DOMAIN heap : i \in DOMAIN heap' /\ heap'[i] = heap[i]]_vars

C25_Witness ==
  /\ last.op = "assign"
  /\ Value(last.recv) = EmptyObj
  /\ Present(last.ret)
  /\ DOMAIN Value(last.ret).fields = {"x"}

\* C26: from an absent instance, map, and, andThen, filter, ap, assign and do
\* yield an absent instance and invoke no caller-supplied function (a
\* function-form `other` of assign included); only orElse returns a present
\* Maybe from an absent receiver.
C26_AbsencePropagates ==
  /\ (/\ last.op \in {"map", "and", "andThen", "filter", "ap", "assign", "do"}
      /\ Absent(last.recv)) =>
       /\ Absent(last.ret)
       /\ calls = <<>>
  /\ (/\ IsRef(last.recv)
      /\ Absent(last.recv)
      /\ IsRef(last.ret)
      /\ Present(last.ret)) =>
       last.op = "orElse"

C26_Witness ==
  /\ heap = <<Null, Null, Null>>
  /\ last.op = "assign"
  /\ last.recv = Ref(2)
  /\ last.args[2] = ConstNothing
  /\ last.ret = Ref(3)
  /\ calls = <<>>

\* C29: maybe(v) is Nothing iff v is null; for every other v, undefined
\* included, it is a Just holding v.
C29_MaybeConstructor ==
  last.op = "maybe" =>
    /\ Fresh(last.ret)
    /\ Absent(last.ret) <=> last.args[1] = Null
    /\ last.args[1] # Null =>
         /\ Maybe_isJust(Here, last.ret)
         /\ Value(last.ret) = last.args[1]

C29_Witness ==
  /\ last.op = "maybe"
  /\ last.args[1] = Undefined
  /\ Maybe_isJust(Here, last.ret)
  /\ Value(last.ret) = Undefined

Alike(x, y) == IF IsRef(x) THEN IsRef(y) /\ Same(x, y) ELSE x = y

\* C27: for each curried free function f of map, andThen, getOrElse,
\* getOrElseValue, cata, filter, exists, ap, every first argument a and every
\* Maybe m, f(a)(m) and f(a, m) give the same result, equal in presence and
\* value to m.f(a); traverse(fn)(list) equals traverse(fn, list).
C27_CurriedEquivalence ==
  /\ last.op = "equivalent" =>
       /\ Alike(last.ret[1], last.ret[2])
       /\ Alike(last.ret[2], last.ret[3])
  /\ last.op = "traverseEquivalent" => Alike(last.ret[1], last.ret[2])

C27_Witness ==
  /\ last.op = "equivalent"
  /\ last.args[1] = Str("getOrElse")
  /\ Absent(last.recv)
  /\ last.args[2] = Const(Num(1))
  /\ last.ret = <<Num(1), Num(1), Num(1)>>

\* C28: the three representations are semantically identical: after every
\* sequence of the shared operations (just, nothing, fromNullable, map,
\* andThen, cata, getOrElseValue/withDefault) on every input value, the
\* class hierarchy, the tagged union and the nullable-internal class hold
\* instances of the same presence and value and return the same results.
C28_RepresentationsAgree ==
  last.op # "init" =>
    /\ Len(last.lhs) = Len(heap)
    /\ Len(last.rhs) = Len(heap)
    /\ \A i \in Instances :
         /\ heap[i] # Null <=> last.lhs[i].typeof = "Just"
         /\ heap[i] # Null <=> last.rhs[i].kind = "just"
         /\ heap[i] # Null => heap[i] = last.lhs[i].value /\ heap[i] = last.rhs[i].value
    /\ last.op \in {"cata", "getOrElseValue"} =>
         last.args[1] = last.args[2] /\ last.args[1] = last.args[3]

=============================================================================
